---------------------------- MODULE Spec2Model ----------------------------
(***************************************************************************)
(* OneToMany<Source, Target> of gen_id_one_to_many (src/src/lib.rs): a     *)
(* one-to-many relation kept as two sparse maps,                           *)
(*    targets : RawComponent<Source, HashSet<Id<Target>>>                  *)
(*    source  : RawComponent<Target, Option<Id<Source>>>                   *)
(* mutated by link, unlink and unlink_source.                              *)
(*                                                                         *)
(* A RawComponent is the Vec-backed store of gen_id_component, indexed by  *)
(* an id's index.  It is modelled as a sequence whose element i+1 is the   *)
(* value of the id with index i; an id whose index is not below the length *)
(* is absent.  An Option is << >> (None) or <<x>> (Some(x)).               *)
(***************************************************************************)
EXTENDS Naturals, Sequences, FiniteSets

\* Sizes of the two identifier families the calls draw from.
MaxSource == 2
MaxTarget == 3
\* The calls made since default() are recorded up to this many.
MaxTrace == 3

SourceId == 0 .. (MaxSource - 1)
TargetId == 0 .. (MaxTarget - 1)

VARIABLES
    targets,    \* self.targets
    source,     \* self.source
    panicked,   \* a call has panicked (the program has aborted)
    op,         \* the last call made: <<"link", s, t>>, <<"unlink", t>>, ...
    prev,       \* the call made before op
    pre,        \* the two maps as they were when op was called
    trace,      \* every call since default(), while at most MaxTrace
    owner,      \* the abstract relation: a partial function Target -> Source
    linked,     \* the source ids and the target ids ever passed to link
    frame       \* the link call in progress, when link runs step by step

vars == <<targets, source, panicked, op, prev, pre, trace, owner, linked,
          frame>>

None == << >>
Some(x) == <<x>>

-----------------------------------------------------------------------------
(* The sparse store: RawComponent as link, unlink and unlink_source use it *)

\* Whether id has a slot in the store c.
InRange(c, id) == id + 1 \in DOMAIN c

\* c.get_mut(id): Some(slot) when id has a slot, None otherwise.
get_mut(c, id) == IF InRange(c, id) THEN Some(c[id + 1]) ELSE None

\* c.insert_with(id, value, fill): overwrite the slot of id; when id has no
\* slot, first grow the store with fill up to id's index.
insert_with(c, id, value, fill) ==
    IF InRange(c, id)
    THEN [c EXCEPT ![id + 1] = value]
    ELSE c \o [i \in 1 .. (id - Len(c)) |-> fill] \o <<value>>

\* c.remove(id) on a store of Options: take the value out of id's slot,
\* leaving None there.  The store after the call, and the value returned.
remove(c, id) ==
    IF InRange(c, id)
    THEN [store |-> [c EXCEPT ![id + 1] = None], taken |-> c[id + 1]]
    ELSE [store |-> c, taken |-> None]

-----------------------------------------------------------------------------
(* The relation's state and its three mutations                            *)

\* OneToMany { targets, source }, with the outcome of the call that made it.
OneToMany(ts, src, failed) == [targets |-> ts, source |-> src, panicked |-> failed]

\* OneToMany::default()
Default == OneToMany(<< >>, << >>, FALSE)

self == OneToMany(targets, source, panicked)

\* unlink_inner that clears the back-reference and leaves the target in
\* its owner's set.
unlink_inner_keeps_member(rel, target) ==
    OneToMany(rel.targets, remove(rel.source, target).store, rel.panicked)

\* unlink_inner that unwraps the owner: self.source.remove(target).unwrap().
unlink_inner_unwrap(rel, target) ==
    LET r == remove(rel.source, target)
    IN  IF r.taken # None
        THEN OneToMany(
               [rel.targets EXCEPT ![r.taken[1] + 1] = @ \ {target}],
               r.store, rel.panicked)
        ELSE OneToMany(rel.targets, r.store, TRUE)

\* fn unlink_inner(&mut self, target)
unlink_inner(rel, target) ==
    LET r == remove(rel.source, target)
    IN  IF r.taken # None
        THEN LET existing_source == r.taken[1]
             IN  IF get_mut(rel.targets, existing_source) # None
                 THEN OneToMany(
                        [rel.targets EXCEPT ![existing_source + 1] = @ \ {target}],
                        r.store, rel.panicked)
                 ELSE OneToMany(rel.targets, r.store, rel.panicked)
        ELSE OneToMany(rel.targets, r.store, rel.panicked)

\* link_inner that sets the back-reference and never inserts into the set.
link_inner_no_insert(rel, src, target) ==
    LET u == unlink_inner(rel, target)
    IN  OneToMany(u.targets, insert_with(u.source, target, Some(src), None),
                  u.panicked)

\* link_inner without the call of unlink_inner that opens it.
link_inner_no_unlink(rel, src, target) ==
    LET bw == insert_with(rel.source, target, Some(src), None)
    IN  IF get_mut(rel.targets, src) # None
        THEN OneToMany([rel.targets EXCEPT ![src + 1] = @ \cup {target}],
                       bw, rel.panicked)
        ELSE OneToMany(insert_with(rel.targets, src, {target}, {}),
                       bw, rel.panicked)

\* link_inner with unlink_inner called after the insertions, not before.
link_inner_unlink_last(rel, src, target) ==
    unlink_inner(link_inner_no_unlink(rel, src, target), target)

\* link_inner that always stores a fresh one-element set for the source.
link_inner_overwrite(rel, src, target) ==
    LET u == unlink_inner(rel, target)
    IN  OneToMany(insert_with(u.targets, src, {target}, {}),
                  insert_with(u.source, target, Some(src), None),
                  u.panicked)

\* link_inner that indexes the store: self.targets[source].insert(target).
link_inner_index(rel, src, target) ==
    LET u  == unlink_inner(rel, target)
        bw == insert_with(u.source, target, Some(src), None)
    IN  IF get_mut(u.targets, src) # None
        THEN OneToMany([u.targets EXCEPT ![src + 1] = @ \cup {target}],
                       bw, u.panicked)
        ELSE OneToMany(u.targets, bw, TRUE)

\* link_inner whose insert_with calls fill the new slots with the value
\* inserted, not with None and the empty set.
link_inner_fill_self(rel, src, target) ==
    LET u  == unlink_inner(rel, target)
        bw == insert_with(u.source, target, Some(src), Some(src))
    IN  IF get_mut(u.targets, src) # None
        THEN OneToMany([u.targets EXCEPT ![src + 1] = @ \cup {target}],
                       bw, u.panicked)
        ELSE OneToMany(insert_with(u.targets, src, {target}, {target}),
                       bw, u.panicked)

\* fn link_inner(&mut self, source, target)
link_inner(rel, src, target) ==
    LET u  == unlink_inner(rel, target)
        bw == insert_with(u.source, target, Some(src), None)
    IN  IF get_mut(u.targets, src) # None
        THEN OneToMany([u.targets EXCEPT ![src + 1] = @ \cup {target}],
                       bw, u.panicked)
        ELSE OneToMany(insert_with(u.targets, src, {target}, {}),
                       bw, u.panicked)

\* for target in targets.drain() { self.source.remove(target); }
RECURSIVE drain_remove(_, _)
drain_remove(c, set) ==
    IF set = {}
    THEN c
    ELSE LET target == CHOOSE x \in set : TRUE
         IN  drain_remove(remove(c, target).store, set \ {target})

\* unlink_source_inner that iterates the set without draining it.
unlink_source_inner_iter(rel, src) ==
    IF get_mut(rel.targets, src) # None
    THEN OneToMany(rel.targets,
                   drain_remove(rel.source, rel.targets[src + 1]),
                   rel.panicked)
    ELSE rel

\* unlink_source_inner that clears the set and leaves the back-references.
unlink_source_inner_clear(rel, src) ==
    IF get_mut(rel.targets, src) # None
    THEN OneToMany([rel.targets EXCEPT ![src + 1] = {}], rel.source,
                   rel.panicked)
    ELSE rel

\* unlink_source_inner that indexes the store: &mut self.targets[source].
unlink_source_inner_index(rel, src) ==
    IF get_mut(rel.targets, src) # None
    THEN OneToMany([rel.targets EXCEPT ![src + 1] = {}],
                   drain_remove(rel.source, rel.targets[src + 1]),
                   rel.panicked)
    ELSE OneToMany(rel.targets, rel.source, TRUE)

\* fn unlink_source_inner(&mut self, source)
unlink_source_inner(rel, src) ==
    IF get_mut(rel.targets, src) # None
    THEN OneToMany([rel.targets EXCEPT ![src + 1] = {}],
                   drain_remove(rel.source, rel.targets[src + 1]),
                   rel.panicked)
    ELSE rel

-----------------------------------------------------------------------------
(* The calls                                                               *)

\* trace once more than MaxTrace calls have been made.
Overflow == << <<"overflow">> >>

\* No link call is in progress.
Idle == [pc |-> "idle", src |-> 0, target |-> 0, existing_source |-> None,
         entry |-> [targets |-> << >>, source |-> << >>]]

\* The state after a call: the maps it leaves, and the call recorded.
Called(call, rel) ==
    /\ ~panicked
    /\ targets' = rel.targets
    /\ source' = rel.source
    /\ panicked' = rel.panicked
    /\ op' = call
    /\ prev' = op
    /\ pre' = [targets |-> targets, source |-> source]
    /\ trace' = IF trace # Overflow /\ Len(trace) < MaxTrace
                THEN Append(trace, call)
                ELSE Overflow

\* The abstract relation after link(s, t): t is owned by s.
abs_link(o, src, target) ==
    [x \in DOMAIN o \cup {target} |-> IF x = target THEN src ELSE o[x]]

\* The abstract relation after unlink(t): t is owned by nobody.
abs_unlink(o, target) == [x \in DOMAIN o \ {target} |-> o[x]]

\* The abstract relation after unlink_source(s): s owns nothing.
abs_unlink_source(o, src) == [x \in {y \in DOMAIN o : o[y] # src} |-> o[x]]

\* pub fn link(&mut self, source, target)
link(src, target) ==
    /\ Called(<<"link", src, target>>, link_inner(self, src, target))
    /\ owner' = abs_link(owner, src, target)
    /\ linked' = [S |-> linked.S \cup {src}, T |-> linked.T \cup {target}]
    /\ UNCHANGED frame

\* pub fn unlink(&mut self, target)
unlink(target) ==
    /\ Called(<<"unlink", target>>, unlink_inner(self, target))
    /\ owner' = abs_unlink(owner, target)
    /\ UNCHANGED <<linked, frame>>

\* pub fn unlink_source(&mut self, source)
unlink_source(src) ==
    /\ Called(<<"unlink_source", src>>, unlink_source_inner(self, src))
    /\ owner' = abs_unlink_source(owner, src)
    /\ UNCHANGED <<linked, frame>>

Init ==
    /\ targets = Default.targets
    /\ source = Default.source
    /\ panicked = Default.panicked
    /\ op = <<"default">>
    /\ prev = <<"default">>
    /\ pre = [targets |-> Default.targets, source |-> Default.source]
    /\ trace = << >>
    /\ owner = << >>
    /\ linked = [S |-> {}, T |-> {}]
    /\ frame = Idle

Next ==
    \/ \E s \in SourceId, t \in TargetId : link(s, t)
    \/ \E t \in TargetId : unlink(t)
    \/ \E s \in SourceId : unlink_source(s)

Spec == Init /\ [][Next]_vars

-----------------------------------------------------------------------------
(* What a caller reads                                                     *)

\* self.targets()[source]: the set in the source's slot; a source without
\* a slot owns nothing.
targets_of(rel, src) ==
    IF InRange(rel.targets, src) THEN rel.targets[src + 1] ELSE {}

\* self.source()[target]: the owner in the target's slot; a target without
\* a slot has none.
source_of(rel, target) ==
    IF InRange(rel.source, target) THEN rel.source[target + 1] ELSE None

\* Every id that has a slot or that a call may name.
Sources == SourceId \cup {i - 1 : i \in DOMAIN targets}
Targets == TargetId \cup {i - 1 : i \in DOMAIN source}

IsLink(call) == call[1] = "link"
IsUnlink(call) == call[1] = "unlink"
IsUnlinkSource(call) == call[1] = "unlink_source"

-----------------------------------------------------------------------------
(* Invariants of the relation                                              *)

\* C1: backward implies forward.  After any sequence of link, unlink and
\* unlink_source calls, a target whose back-reference is Some(s) is a
\* member of the target set of s.
Inv_BackwardImpliesForward ==
    \A t \in Targets :
        source_of(self, t) # None =>
            t \in targets_of(self, source_of(self, t)[1])

\* C1 witness: a target has just been moved from one source to another and
\* is a member of its new owner's set, while another target is owned too.
Wit_BackwardImpliesForward ==
    /\ IsLink(op)
    /\ source_of(pre, op[3]) # None
    /\ source_of(pre, op[3]) # Some(op[2])
    /\ source_of(self, op[3]) = Some(op[2])
    /\ op[3] \in targets_of(self, op[2])
    /\ \E t \in Targets : t # op[3] /\ source_of(self, t) # None

\* C2: forward implies backward.  After any sequence of calls, every member
\* t of the target set of a source s has the back-reference Some(s): no set
\* holds a member whose back-reference is None or names another source.
Inv_ForwardImpliesBackward ==
    \A s \in Sources :
        \A t \in targets_of(self, s) : source_of(self, t) = Some(s)

\* C2 witness: unlink_source has just emptied a set of two targets while
\* another source still owns a target.
Wit_ForwardImpliesBackward ==
    /\ IsUnlinkSource(op)
    /\ Cardinality(targets_of(pre, op[2])) >= 2
    /\ targets_of(self, op[2]) = {}
    /\ \E s \in Sources : \E t \in targets_of(self, s) : source_of(self, t) = Some(s)

\* C3: single ownership.  In every reachable state the target sets of two
\* different sources are disjoint.
Inv_SingleOwnership ==
    \A s1 \in Sources, s2 \in Sources :
        s1 # s2 => targets_of(self, s1) \cap targets_of(self, s2) = {}

\* C3 witness: a target has just been linked to a source while another
\* source owned it, and both sources own a target afterwards.
Wit_SingleOwnership ==
    /\ IsLink(op)
    /\ \E s1 \in Sources :
        /\ s1 # op[2]
        /\ op[3] \in targets_of(pre, s1)
        /\ op[3] \notin targets_of(self, s1)
        /\ targets_of(self, s1) # {}
        /\ op[3] \in targets_of(self, op[2])

-----------------------------------------------------------------------------
(* link                                                                    *)

\* The two maps as they are now.
now == [targets |-> targets, source |-> source]

\* C4: re-link moves the target.  From any reachable state, after
\* link(s1, t) followed by link(s2, t) with s1 # s2, source_of(t) = s2,
\* t is not in targets_of(s1) and t is in targets_of(s2).
Thm_RelinkMoves ==
    (IsLink(prev) /\ IsLink(op) /\ prev[3] = op[3] /\ prev[2] # op[2]) =>
        /\ source_of(now, op[3]) = Some(op[2])
        /\ op[3] \notin targets_of(now, prev[2])
        /\ op[3] \in targets_of(now, op[2])

\* C4 witness: link(s1, t) then link(s2, t), s1 # s2, were the last two
\* calls; t was in the set of s1 in between and is in the set of s2 now.
Wit_RelinkMoves ==
    /\ IsLink(prev) /\ IsLink(op) /\ prev[3] = op[3] /\ prev[2] # op[2]
    /\ op[3] \in targets_of(pre, prev[2])
    /\ source_of(pre, op[3]) = Some(prev[2])
    /\ source_of(now, op[3]) = Some(op[2])
    /\ op[3] \in targets_of(now, op[2])

\* C5: idempotent re-link.  From any reachable state, a second link(s, t)
\* right after link(s, t) leaves both maps as the first call left them; and
\* from the empty relation, link(s, t) made once or twice gives
\* targets_of(s) = {t} and source_of(t) = s.
Thm_IdempotentRelink ==
    /\ (IsLink(op) /\ prev = op) => now = pre
    /\ (/\ Len(trace) \in {1, 2}
        /\ IsLink(trace[1])
        /\ \A i \in DOMAIN trace : trace[i] = trace[1]) =>
            /\ targets_of(now, trace[1][2]) = {trace[1][3]}
            /\ source_of(now, trace[1][3]) = Some(trace[1][2])

\* C5 witness: the same link was made twice in a row, into a source that
\* owns another target too, and the maps are as the first call left them.
Wit_IdempotentRelink ==
    /\ IsLink(op) /\ prev = op
    /\ now = pre
    /\ op[3] \in targets_of(now, op[2])
    /\ Cardinality(targets_of(now, op[2])) >= 2

\* C6: postcondition and frame of link.  After link(s, t) from any
\* reachable state: source_of(t) = s; targets_of(s) is its previous value
\* united with {t}; the previous owner of t, when it is not s, loses t and
\* nothing else; the owner of every other target and the set of every other
\* source are as before.  From the empty relation link(s0, t0),
\* link(s0, t1), link(s1, t0) gives targets_of(s0) = {t1},
\* targets_of(s1) = {t0}, source_of(t0) = s1, source_of(t1) = s0.
Thm_LinkFrame ==
    /\ IsLink(op) =>
        /\ source_of(now, op[3]) = Some(op[2])
        /\ targets_of(now, op[2]) = targets_of(pre, op[2]) \cup {op[3]}
        /\ \A t \in Targets :
            t # op[3] => source_of(now, t) = source_of(pre, t)
        /\ \A s \in Sources :
            s # op[2] =>
                targets_of(now, s) =
                    IF source_of(pre, op[3]) = Some(s)
                    THEN targets_of(pre, s) \ {op[3]}
                    ELSE targets_of(pre, s)
    /\ trace = << <<"link", 0, 0>>, <<"link", 0, 1>>, <<"link", 1, 0>> >> =>
        /\ targets_of(now, 0) = {1}
        /\ targets_of(now, 1) = {0}
        /\ source_of(now, 0) = Some(1)
        /\ source_of(now, 1) = Some(0)

\* C6 witness: link took a target from a source that owned two, into a
\* source that owned one already.
Wit_LinkFrame ==
    /\ IsLink(op)
    /\ targets_of(pre, op[2]) # {}
    /\ op[3] \notin targets_of(pre, op[2])
    /\ \E s \in Sources :
        /\ s # op[2]
        /\ source_of(pre, op[3]) = Some(s)
        /\ Cardinality(targets_of(pre, s)) >= 2
        /\ targets_of(now, s) = targets_of(pre, s) \ {op[3]}
    /\ targets_of(now, op[2]) = targets_of(pre, op[2]) \cup {op[3]}

-----------------------------------------------------------------------------
(* unlink                                                                  *)

\* C7: postcondition and frame of unlink on an owned target.  From any
\* reachable state where source_of(t) = s, after unlink(t) source_of(t) is
\* None and targets_of(s) is its previous value minus {t}; the owner of
\* every other target and the set of every other source are as before.
Thm_UnlinkFrame ==
    (IsUnlink(op) /\ source_of(pre, op[2]) # None) =>
        /\ source_of(now, op[2]) = None
        /\ targets_of(now, source_of(pre, op[2])[1]) =
               targets_of(pre, source_of(pre, op[2])[1]) \ {op[2]}
        /\ \A t \in Targets :
            t # op[2] => source_of(now, t) = source_of(pre, t)
        /\ \A s \in Sources :
            Some(s) # source_of(pre, op[2]) =>
                targets_of(now, s) = targets_of(pre, s)

\* C7 witness: unlink of a target whose owner owned another target too,
\* while another source owned a target; the owner's set has lost it.
Wit_UnlinkFrame ==
    /\ IsUnlink(op)
    /\ source_of(pre, op[2]) # None
    /\ op[2] \in targets_of(pre, source_of(pre, op[2])[1])
    /\ Cardinality(targets_of(pre, source_of(pre, op[2])[1])) >= 2
    /\ op[2] \notin targets_of(now, source_of(pre, op[2])[1])
    /\ source_of(now, op[2]) = None
    /\ \E s \in Sources :
        Some(s) # source_of(pre, op[2]) /\ targets_of(now, s) # {}

\* C8: unlink is a no-op on an unowned target.  From any reachable state,
\* unlink(t) of a target without an owner (never linked, or unlinked
\* before) leaves both maps as they were and does not panic.
Thm_UnlinkUnownedNoOp ==
    (IsUnlink(op) /\ source_of(pre, op[2]) = None) =>
        /\ now = pre
        /\ ~panicked

\* C8 witness: unlink of a target that has no slot in the source map,
\* called on a relation that holds a link.
Wit_UnlinkUnownedNoOp ==
    /\ IsUnlink(op)
    /\ ~InRange(pre.source, op[2])
    /\ \E t \in Targets : source_of(pre, t) # None
    /\ now = pre
    /\ ~panicked

-----------------------------------------------------------------------------
(* unlink_source                                                           *)

\* C9: cascade correctness.  From any reachable state, after
\* unlink_source(s) every target that was in targets_of(s) has no owner and
\* targets_of(s) is empty; the owner of every other target and the set of
\* every other source are as before.  From the empty relation
\* link(s0, t0), link(s0, t1), unlink_source(s0) leaves source_of(t0) and
\* source_of(t1) None and targets_of(s0) empty.
Thm_Cascade ==
    /\ IsUnlinkSource(op) =>
        /\ \A t \in targets_of(pre, op[2]) : source_of(now, t) = None
        /\ targets_of(now, op[2]) = {}
        /\ \A t \in Targets :
            t \notin targets_of(pre, op[2]) =>
                source_of(now, t) = source_of(pre, t)
        /\ \A s \in Sources :
            s # op[2] => targets_of(now, s) = targets_of(pre, s)
    /\ trace = << <<"link", 0, 0>>, <<"link", 0, 1>>, <<"unlink_source", 0>> >> =>
        /\ source_of(now, 0) = None
        /\ source_of(now, 1) = None
        /\ targets_of(now, 0) = {}

\* C9 witness: unlink_source of a source that owned two targets, while
\* another source owned one and keeps it.
Wit_Cascade ==
    /\ IsUnlinkSource(op)
    /\ Cardinality(targets_of(pre, op[2])) >= 2
    /\ \A t \in targets_of(pre, op[2]) :
        source_of(pre, t) = Some(op[2]) /\ source_of(now, t) = None
    /\ targets_of(now, op[2]) = {}
    /\ \E s \in Sources :
        s # op[2] /\ targets_of(now, s) # {} /\ targets_of(now, s) = targets_of(pre, s)

\* C10: unlink_source is a no-op on a source without targets.  From any
\* reachable state, unlink_source(s) of a source whose set is empty (a
\* source never linked included) leaves both maps as they were and does
\* not panic.
Thm_UnlinkSourceEmptyNoOp ==
    (IsUnlinkSource(op) /\ targets_of(pre, op[2]) = {}) =>
        /\ now = pre
        /\ ~panicked

\* C10 witness: unlink_source of a source that has no slot in the targets
\* map, called on a relation that holds a link.
Wit_UnlinkSourceEmptyNoOp ==
    /\ IsUnlinkSource(op)
    /\ ~InRange(pre.targets, op[2])
    /\ \E s \in Sources : targets_of(pre, s) # {}
    /\ now = pre
    /\ ~panicked

-----------------------------------------------------------------------------
(* Totality                                                                *)

\* C12: totality of the mutations.  In every reachable state no call has
\* panicked, and for every source and target id, with a slot or without,
\* link, unlink and unlink_source return without panicking: unlinking a
\* target never linked, unlinking a source without targets and relinking a
\* target to its current source included.
Thm_Total ==
    /\ ~panicked
    /\ \A s \in Sources, t \in Targets : ~link_inner(self, s, t).panicked
    /\ \A t \in Targets : ~unlink_inner(self, t).panicked
    /\ \A s \in Sources : ~unlink_source_inner(self, s).panicked

\* C12 witness: from default(), unlink of a target never linked, then
\* unlink_source of a source never linked, then a link of ids that had no
\* slot, have all returned.
Wit_Total ==
    /\ trace = << <<"unlink", 1>>, <<"unlink_source", 1>>, <<"link", 1, 1>> >>
    /\ ~panicked
    /\ ~InRange(pre.targets, 1)
    /\ ~InRange(pre.source, 1)
    /\ source_of(now, 1) = Some(1)

-----------------------------------------------------------------------------
(* Round trips                                                             *)

\* The ids that have a slot in the store c.
SlotIds(c) == {i - 1 : i \in DOMAIN c}

\* Whether the relations a and b read the same at every id: targets_of for
\* every source, source_of for every target.
SameReads(a, b) ==
    /\ \A s \in SourceId \cup SlotIds(a.targets) \cup SlotIds(b.targets) :
        targets_of(a, s) = targets_of(b, s)
    /\ \A t \in TargetId \cup SlotIds(a.source) \cup SlotIds(b.source) :
        source_of(a, t) = source_of(b, t)

RECURSIVE UnlinkEach(_, _)
UnlinkEach(rel, set) ==
    IF set = {}
    THEN {rel}
    ELSE UNION {UnlinkEach(unlink_inner(rel, t), set \ {t}) : t \in set}

\* C17: cascade equals per-target unlink.  From any reachable state,
\* unlink_source(s) leaves the maps that unlink(t), called once for every t
\* in targets_of(s) in any order, leaves; and a second identical
\* unlink_source(s) or unlink(t) changes nothing.
Thm_CascadeIsUnlinkEach ==
    /\ \A s \in Sources :
        /\ UnlinkEach(self, targets_of(now, s)) = {unlink_source_inner(self, s)}
        /\ unlink_source_inner(unlink_source_inner(self, s), s) =
               unlink_source_inner(self, s)
    /\ \A t \in Targets :
        unlink_inner(unlink_inner(self, t), t) = unlink_inner(self, t)
    /\ (prev = op /\ (IsUnlink(op) \/ IsUnlinkSource(op))) => now = pre

\* C17 witness: unlink_source has just emptied a set of two targets, and
\* the maps are those that the two unlink calls leave in either order.
Wit_CascadeIsUnlinkEach ==
    /\ IsUnlinkSource(op)
    /\ Cardinality(targets_of(pre, op[2])) >= 2
    /\ UnlinkEach(OneToMany(pre.targets, pre.source, FALSE),
                  targets_of(pre, op[2])) = {self}
    /\ now # pre

-----------------------------------------------------------------------------
(* Refinement and lazy growth                                              *)

\* C16: refinement of an abstract owner function.  Run side by side with
\* the partial function owner (link(s, t) sets owner[t] = s, unlink(t)
\* removes t, unlink_source(s) removes every t with owner[t] = s), after any
\* sequence of calls source_of(t) = owner[t] for every target t (None where
\* owner is undefined) and targets_of(s) = {t : owner[t] = s} for every
\* source s.
Thm_RefinesOwner ==
    /\ \A t \in Targets :
        source_of(now, t) =
            IF t \in DOMAIN owner THEN Some(owner[t]) ELSE None
    /\ \A s \in Sources :
        targets_of(now, s) = {t \in DOMAIN owner : owner[t] = s}

\* C16 witness: unlink_source has just removed two targets from owner and
\* from the maps, after which owner still holds a target whose slot names
\* the same source.
Wit_RefinesOwner ==
    /\ IsUnlinkSource(op)
    /\ Cardinality(targets_of(pre, op[2])) >= 2
    /\ \A t \in targets_of(pre, op[2]) : t \notin DOMAIN owner
    /\ \E t \in DOMAIN owner :
        source_of(now, t) = Some(owner[t]) /\ t \in targets_of(now, owner[t])

\* C15: lazy growth fills gaps with defaults.  After link(s, t) where s or
\* t had no slot, every source id below s that was never linked has a slot
\* holding the empty set and every target id below t that was never linked
\* has a slot holding None; and the only ids that read differently from
\* before are s, t and the previous owner of t.
Thm_LazyGrowth ==
    (IsLink(op) /\ (~InRange(pre.targets, op[2]) \/ ~InRange(pre.source, op[3]))) =>
        /\ \A s \in 0 .. op[2] :
            (s # op[2] /\ s \notin linked.S) =>
                InRange(targets, s) /\ targets[s + 1] = {}
        /\ \A t \in 0 .. op[3] :
            (t # op[3] /\ t \notin linked.T) =>
                InRange(source, t) /\ source[t + 1] = None
        /\ \A s \in Sources :
            (s # op[2] /\ Some(s) # source_of(pre, op[3])) =>
                targets_of(now, s) = targets_of(pre, s)
        /\ \A t \in Targets :
            t # op[3] => source_of(now, t) = source_of(pre, t)

\* C15 witness: on a relation that holds a link, link(s, t) of a target
\* that had no slot and is not the next id in line: the slot created below
\* t holds None and the slot below s holds the empty set, both for ids
\* never linked.
Wit_LazyGrowth ==
    /\ IsLink(op)
    /\ pre.source # << >>
    /\ Len(source) > Len(pre.source) + 1
    /\ op[2] >= 1
    /\ op[2] - 1 \notin linked.S /\ targets[op[2]] = {}
    /\ op[3] - 1 \notin linked.T /\ source[op[3]] = None

-----------------------------------------------------------------------------
(* link, one map update at a time                                          *)

\* What the step-by-step calls leave alone: the history of whole calls.
history == <<op, prev, pre, trace, owner, linked>>

\* link_inner is entered (line 34): unlink_inner(target) is called first.
link_enter(src, target) ==
    /\ frame.pc = "idle"
    /\ ~panicked
    /\ frame' = [pc |-> "unlink_remove", src |-> src, target |-> target,
                 existing_source |-> None, entry |-> now]
    /\ UNCHANGED <<targets, source, panicked, history>>

\* unlink_inner's first step that goes on to the insertions whether the
\* target had an owner or not, leaving the target in its owner's set.
unlink_inner_remove_only ==
    /\ frame.pc = "unlink_remove"
    /\ source' = remove(source, frame.target).store
    /\ frame' = [frame EXCEPT
                    !.existing_source = remove(source, frame.target).taken,
                    !.pc = "insert_source"]
    /\ UNCHANGED <<targets, panicked, history>>

\* unlink_inner, line 57: self.source.remove(target).
unlink_inner_remove ==
    /\ frame.pc = "unlink_remove"
    /\ source' = remove(source, frame.target).store
    /\ frame' = [frame EXCEPT
                    !.existing_source = remove(source, frame.target).taken,
                    !.pc = IF remove(source, frame.target).taken # None
                           THEN "unlink_set_remove"
                           ELSE "insert_source"]
    /\ UNCHANGED <<targets, panicked, history>>

\* unlink_inner, lines 58-60: targets.remove(&target) in the owner's set.
unlink_inner_set_remove ==
    /\ frame.pc = "unlink_set_remove"
    /\ targets' =
        IF get_mut(targets, frame.existing_source[1]) # None
        THEN [targets EXCEPT ![frame.existing_source[1] + 1] = @ \ {frame.target}]
        ELSE targets
    /\ frame' = [frame EXCEPT !.pc = "insert_source"]
    /\ UNCHANGED <<source, panicked, history>>

\* link_inner, line 37: self.source.insert_with(target, Some(source), || None).
link_inner_insert_source ==
    /\ frame.pc = "insert_source"
    /\ source' = insert_with(source, frame.target, Some(frame.src), None)
    /\ frame' = [frame EXCEPT !.pc = "insert_target"]
    /\ UNCHANGED <<targets, panicked, history>>

\* link_inner, lines 38-44: the target is inserted into the source's set,
\* and link returns.
link_inner_insert_target ==
    /\ frame.pc = "insert_target"
    /\ targets' =
        IF get_mut(targets, frame.src) # None
        THEN [targets EXCEPT ![frame.src + 1] = @ \cup {frame.target}]
        ELSE insert_with(targets, frame.src, {frame.target}, {})
    /\ frame' = Idle
    /\ UNCHANGED <<source, panicked, history>>

\* unlink(target), as one step between two link calls.
unlink_whole(target) ==
    /\ frame.pc = "idle"
    /\ ~panicked
    /\ targets' = unlink_inner(self, target).targets
    /\ source' = unlink_inner(self, target).source
    /\ panicked' = unlink_inner(self, target).panicked
    /\ UNCHANGED <<frame, history>>

\* unlink_source(source), as one step between two link calls.
unlink_source_whole(src) ==
    /\ frame.pc = "idle"
    /\ ~panicked
    /\ targets' = unlink_source_inner(self, src).targets
    /\ source' = unlink_source_inner(self, src).source
    /\ panicked' = unlink_source_inner(self, src).panicked
    /\ UNCHANGED <<frame, history>>

NextSteps ==
    \/ \E s \in SourceId, t \in TargetId : link_enter(s, t)
    \/ unlink_inner_remove
    \/ unlink_inner_set_remove
    \/ link_inner_insert_source
    \/ link_inner_insert_target
    \/ \E t \in TargetId : unlink_whole(t)
    \/ \E s \in SourceId : unlink_source_whole(s)

SpecSteps == Init /\ [][NextSteps]_vars

\* The steps of a link call leave what link_inner leaves.
StepsAgree ==
    [][frame.pc = "insert_target" =>
        /\ targets' = link_inner(OneToMany(frame.entry.targets,
                          frame.entry.source, FALSE), frame.src, frame.target).targets
        /\ source' = link_inner(OneToMany(frame.entry.targets,
                          frame.entry.source, FALSE), frame.src, frame.target).source]_vars

\* The sources whose set holds the target now.
Holders(target) == {s \in Sources : target \in targets_of(now, s)}

\* Removal before insertion: once unlink_inner has returned and until the
\* target is inserted into targets[s], the target is in no set, and its old
\* back-reference is gone.
RemovedBeforeInsert ==
    /\ frame.pc \in {"insert_source", "insert_target"} =>
        Holders(frame.target) = {}
    /\ frame.pc = "insert_source" => source_of(now, frame.target) = None
    /\ frame.pc = "insert_target" =>
        source_of(now, frame.target) = Some(frame.src)

\* At every step every target is a member of at most one target set.
AtMostOneHolder == \A t \in Targets : Cardinality(Holders(t)) <= 1

\* C14 as claimed: inside link the prior linkage of t is removed before t
\* is inserted into targets[s], and at every intermediate step t is in at
\* most one target set and invariant 1 (source[t] = Some(x) implies t in
\* targets[x]) holds.
Orig_LinkOrder ==
    /\ RemovedBeforeInsert
    /\ AtMostOneHolder
    /\ \A t \in Targets :
        source_of(now, t) # None =>
            t \in targets_of(now, source_of(now, t)[1])

\* C14 as amended: inside link the prior linkage of t is removed before t
\* is inserted into targets[s], and at every intermediate step t is in at
\* most one target set; invariant 1 holds at every step for every other
\* target, and for t at every step but the one between the write of
\* source[t] = Some(s) (line 37) and the insertion of t into targets[s]
\* (lines 38-44), where source[t] = Some(s) and t is in no set.
Thm_LinkOrder ==
    /\ RemovedBeforeInsert
    /\ AtMostOneHolder
    /\ \A t \in Targets :
        (/\ source_of(now, t) # None
         /\ ~(frame.pc = "insert_target" /\ t = frame.target)) =>
            t \in targets_of(now, source_of(now, t)[1])
    /\ frame.pc = "insert_target" =>
        /\ source_of(now, frame.target) = Some(frame.src)
        /\ frame.target \notin targets_of(now, frame.src)

\* C14 witness: a link call that moves a target from another source stands
\* between line 37 and line 38: the old owner's set has lost the target,
\* the back-reference names the new source, the new source's set does not
\* hold the target yet.
Wit_LinkOrder ==
    /\ frame.pc = "insert_target"
    /\ frame.existing_source # None
    /\ frame.existing_source # Some(frame.src)
    /\ frame.target \in targets_of(frame.entry, frame.existing_source[1])
    /\ frame.target \notin targets_of(now, frame.existing_source[1])
    /\ source_of(now, frame.target) = Some(frame.src)
    /\ frame.target \notin targets_of(now, frame.src)
    /\ targets_of(now, frame.src) # {}

=============================================================================
